---- MODULE Spec2Model ----
(***************************************************************************)
(* A model of sort_scan_id.py: create_sorted_copy(csv_path, output_path)   *)
(* copies a Scan-ID CSV file, keeps the data rows whose CREATED column     *)
(* (field 0) carries a timestamp, sorts them newest first and rewrites the *)
(* copy.                                                                   *)
(*                                                                         *)
(* Text is modelled character by character: a string is a sequence of      *)
(* one-character strings, a file's content is such a sequence, and the     *)
(* csv reader, the csv writer and strptime are the character automata of   *)
(* the Python library the program calls.                                   *)
(***************************************************************************)
EXTENDS Integers, Sequences, FiniteSets, TLC

(***************************************************************************)
(* Bounds of the model.                                                    *)
(***************************************************************************)
\* the largest number of data rows of a source file
MaxRows == 2

(***************************************************************************)
(* Characters and strings.                                                 *)
(***************************************************************************)
LF == "\n"
CR == "\r"
COMMA == ","
QUOTE == "\""
SP == " "
TAB == "\t"

\* s[i..] starts with the string p
StartsAt(s, i, p) ==
    /\ i + Len(p) - 1 <= Len(s)
    /\ \A k \in 1..Len(p) : s[i + k - 1] = p[k]

\* str.startswith
startswith(s, p) == StartsAt(s, 1, p)

\* str.find: the first index at which p occurs in s, 0 when it does not
Find(s, p) ==
    IF \E i \in 1..Len(s) : StartsAt(s, i, p)
    THEN CHOOSE i \in 1..Len(s) :
            /\ StartsAt(s, i, p)
            /\ \A j \in 1..(i - 1) : ~StartsAt(s, j, p)
    ELSE 0

\* s.split(p)[0]: the text before the first p, all of s when p does not occur
SplitFirst(s, p) ==
    LET i == Find(s, p) IN IF i = 0 THEN s ELSE SubSeq(s, 1, i - 1)

(***************************************************************************)
(* datetime.strptime(date_part, '%Y/%m/%d %H:%M:%S').  The format compiles *)
(* to the regular expression                                               *)
(*   (\d\d\d\d)/(1[0-2]|0[1-9]|[1-9])/(3[01]|[12]\d|0[1-9]|[1-9]| [1-9])   *)
(*   \s+(2[0-3]|[0-1]\d|\d):([0-5]\d|\d):(6[0-1]|[0-5]\d|\d)               *)
(* matched at the start of the string; text left over after the match,     *)
(* and a date or time the calendar does not have, raise ValueError.  Every *)
(* directive but the last is followed by a literal that is no digit, so    *)
(* the first alternative that matches is the only one that can.            *)
(***************************************************************************)
Digits == <<"0", "1", "2", "3", "4", "5", "6", "7", "8", "9">>

IsDigit(c) == \E i \in 1..10 : Digits[i] = c

DigitVal(c) == (CHOOSE i \in 1..10 : Digits[i] = c) - 1

IsSpace(c) == c \in {SP, TAB, LF, CR}

\* the character of s at i, "" past the end
At(s, i) == IF i >= 1 /\ i <= Len(s) THEN s[i] ELSE ""

\* a digit of s at i with a value in lo..hi
DigitIn(s, i, lo, hi) ==
    IsDigit(At(s, i)) /\ DigitVal(At(s, i)) >= lo /\ DigitVal(At(s, i)) <= hi

\* What one directive matches of s at i: [n |-> characters consumed, 0 when
\* nothing matches, v |-> the number read].
Num2(s, i) == 10 * DigitVal(s[i]) + DigitVal(s[i + 1])

MatchYear(s, i) ==
    IF \A k \in 0..3 : IsDigit(At(s, i + k))
    THEN [n |-> 4, v |-> 1000 * DigitVal(s[i]) + 100 * DigitVal(s[i + 1])
                         + 10 * DigitVal(s[i + 2]) + DigitVal(s[i + 3])]
    ELSE [n |-> 0, v |-> 0]

MatchMonth(s, i) ==
    IF At(s, i) = "1" /\ DigitIn(s, i + 1, 0, 2) THEN [n |-> 2, v |-> Num2(s, i)]
    ELSE IF At(s, i) = "0" /\ DigitIn(s, i + 1, 1, 9) THEN [n |-> 2, v |-> Num2(s, i)]
    ELSE IF DigitIn(s, i, 1, 9) THEN [n |-> 1, v |-> DigitVal(s[i])]
    ELSE [n |-> 0, v |-> 0]

MatchDay(s, i) ==
    IF At(s, i) = "3" /\ DigitIn(s, i + 1, 0, 1) THEN [n |-> 2, v |-> Num2(s, i)]
    ELSE IF DigitIn(s, i, 1, 2) /\ DigitIn(s, i + 1, 0, 9) THEN [n |-> 2, v |-> Num2(s, i)]
    ELSE IF At(s, i) = "0" /\ DigitIn(s, i + 1, 1, 9) THEN [n |-> 2, v |-> Num2(s, i)]
    ELSE IF DigitIn(s, i, 1, 9) THEN [n |-> 1, v |-> DigitVal(s[i])]
    ELSE IF At(s, i) = SP /\ DigitIn(s, i + 1, 1, 9) THEN [n |-> 2, v |-> DigitVal(s[i + 1])]
    ELSE [n |-> 0, v |-> 0]

MatchHour(s, i) ==
    IF At(s, i) = "2" /\ DigitIn(s, i + 1, 0, 3) THEN [n |-> 2, v |-> Num2(s, i)]
    ELSE IF DigitIn(s, i, 0, 1) /\ DigitIn(s, i + 1, 0, 9) THEN [n |-> 2, v |-> Num2(s, i)]
    ELSE IF DigitIn(s, i, 0, 9) THEN [n |-> 1, v |-> DigitVal(s[i])]
    ELSE [n |-> 0, v |-> 0]

MatchMinute(s, i) ==
    IF DigitIn(s, i, 0, 5) /\ DigitIn(s, i + 1, 0, 9) THEN [n |-> 2, v |-> Num2(s, i)]
    ELSE IF DigitIn(s, i, 0, 9) THEN [n |-> 1, v |-> DigitVal(s[i])]
    ELSE [n |-> 0, v |-> 0]

MatchSecond(s, i) ==
    IF At(s, i) = "6" /\ DigitIn(s, i + 1, 0, 1) THEN [n |-> 2, v |-> Num2(s, i)]
    ELSE MatchMinute(s, i)

\* \s+ : the number of whitespace characters of s from i on
RECURSIVE SpaceRun(_, _)
SpaceRun(s, i) == IF IsSpace(At(s, i)) THEN 1 + SpaceRun(s, i + 1) ELSE 0

IsLeap(y) == (y % 4 = 0) /\ ((y % 100 # 0) \/ (y % 400 = 0))

DaysInMonth(y, m) ==
    IF m = 2 THEN (IF IsLeap(y) THEN 29 ELSE 28)
    ELSE IF m \in {4, 6, 9, 11} THEN 30 ELSE 31

\* the value no timestamp has: what strptime is modelled to give when it raises
NoTime == <<>>

\* strptime: the timestamp <<Y, m, d, H, M, S>>, NoTime for a ValueError
strptime(s) ==
    LET y  == MatchYear(s, 1)
        i1 == 1 + y.n
        mo == MatchMonth(s, i1 + 1)
        i2 == i1 + 1 + mo.n
        d  == MatchDay(s, i2 + 1)
        i3 == i2 + 1 + d.n
        w  == SpaceRun(s, i3)
        h  == MatchHour(s, i3 + w)
        i4 == i3 + w + h.n
        mi == MatchMinute(s, i4 + 1)
        i5 == i4 + 1 + mi.n
        se == MatchSecond(s, i5 + 1)
        i6 == i5 + 1 + se.n
    IN  IF /\ y.n > 0 /\ At(s, i1) = "/"
           /\ mo.n > 0 /\ At(s, i2) = "/"
           /\ d.n > 0 /\ w > 0
           /\ h.n > 0 /\ At(s, i4) = ":"
           /\ mi.n > 0 /\ At(s, i5) = ":"
           /\ se.n > 0
           /\ i6 = Len(s) + 1
           /\ y.v >= 1
           /\ d.v <= DaysInMonth(y.v, mo.v)
           /\ se.v <= 59
        THEN <<y.v, mo.v, d.v, h.v, mi.v, se.v>>
        ELSE NoTime

\* t1 < t2 for two timestamps: the order of datetime values
RECURSIVE TimeLess(_, _)
TimeLess(t1, t2) ==
    IF t1 = <<>> \/ t2 = <<>> THEN FALSE
    ELSE IF Head(t1) # Head(t2) THEN Head(t1) < Head(t2)
    ELSE TimeLess(Tail(t1), Tail(t2))

(***************************************************************************)
(* csv.reader(csvfile) over a file opened with newline='': the excel       *)
(* dialect (delimiter ',', quotechar '"', doublequote, not strict).  The   *)
(* file yields its lines with their endings (\n, \r\n or a lone \r) left   *)
(* in place; the reader feeds each line's characters, then an end-of-line  *)
(* mark, to the automaton below, and returns a row each time the automaton *)
(* is back in START_RECORD.                                                *)
(***************************************************************************)
\* the automaton before the first character: reader state, the field being
\* read, the fields of the row being read, the rows read
ParseReset == [st |-> "START_RECORD", field |-> <<>>, fields |-> <<>>, recs |-> <<>>]

\* parse_save_field
SaveField(p) == [p EXCEPT !.fields = Append(@, p.field), !.field = <<>>]

\* parse_add_char
AddChar(p, c) == [p EXCEPT !.field = Append(@, c)]

SetState(p, st) == [p EXCEPT !.st = st]

\* parse_process_char for a character of the line
ProcessChar(p, c) ==
    CASE p.st = "START_RECORD" /\ c \in {LF, CR} -> SetState(p, "EAT_CRNL")
      [] p.st \in {"START_RECORD", "START_FIELD"} /\ c \notin {LF, CR} ->
            IF c = QUOTE THEN SetState(p, "IN_QUOTED_FIELD")
            ELSE IF c = COMMA THEN SetState(SaveField(p), "START_FIELD")
            ELSE SetState(AddChar(p, c), "IN_FIELD")
      [] p.st = "START_FIELD" /\ c \in {LF, CR} -> SetState(SaveField(p), "EAT_CRNL")
      [] p.st = "IN_FIELD" ->
            IF c \in {LF, CR} THEN SetState(SaveField(p), "EAT_CRNL")
            ELSE IF c = COMMA THEN SetState(SaveField(p), "START_FIELD")
            ELSE AddChar(p, c)
      [] p.st = "IN_QUOTED_FIELD" ->
            IF c = QUOTE THEN SetState(p, "QUOTE_IN_QUOTED_FIELD")
            ELSE AddChar(p, c)
      [] p.st = "QUOTE_IN_QUOTED_FIELD" ->
            IF c = QUOTE THEN SetState(AddChar(p, c), "IN_QUOTED_FIELD")
            ELSE IF c = COMMA THEN SetState(SaveField(p), "START_FIELD")
            ELSE IF c \in {LF, CR} THEN SetState(SaveField(p), "EAT_CRNL")
            ELSE SetState(AddChar(p, c), "IN_FIELD")
      [] p.st = "EAT_CRNL" -> p

\* the row being read is complete: Reader_iternext returns it
EmitRow(p) ==
    [p EXCEPT !.recs = Append(@, p.fields), !.fields = <<>>, !.st = "START_RECORD"]

\* parse_process_char for the mark at the end of a line
ProcessEOL(p) ==
    CASE p.st \in {"START_FIELD", "IN_FIELD", "QUOTE_IN_QUOTED_FIELD"} -> EmitRow(SaveField(p))
      [] p.st = "IN_QUOTED_FIELD" -> p
      [] p.st \in {"EAT_CRNL", "START_RECORD"} -> EmitRow(p)

\* a line of the file ends with the character at i
LineEndsAt(text, i) ==
    \/ i = Len(text)
    \/ text[i] = LF
    \/ text[i] = CR /\ text[i + 1] # LF

RECURSIVE ReadFrom(_, _, _)
\* the automaton after the characters of text from i on
ReadFrom(text, i, p) ==
    IF i > Len(text) \/ p.st = "ERROR" THEN p
    ELSE LET q == ProcessChar(p, text[i])
         IN  ReadFrom(text, i + 1, IF LineEndsAt(text, i) THEN ProcessEOL(q) ELSE q)

\* list(csv.reader(csvfile)): every row of the text.  When the lines run out
\* inside a quoted field the reader returns what it has as the last row.
ReadRows(text) ==
    LET p == ReadFrom(text, 1, ParseReset)
    IN  IF p.st = "IN_QUOTED_FIELD" \/ p.field # <<>>
        THEN EmitRow(SaveField(p)).recs
        ELSE p.recs

(***************************************************************************)
(* csv.writer(csvfile).writerow(row): the excel dialect, QUOTE_MINIMAL,    *)
(* lineterminator '\r\n'.                                                  *)
(***************************************************************************)
\* a field is quoted when it holds the delimiter, the quote character or a
\* character of the line terminator
NeedsQuote(f) == \E k \in 1..Len(f) : f[k] \in {COMMA, QUOTE, CR, LF}

RECURSIVE DoubleQuotes(_)
\* the field with each quote character doubled
DoubleQuotes(f) ==
    IF f = <<>> THEN <<>>
    ELSE (IF Head(f) = QUOTE THEN <<QUOTE, QUOTE>> ELSE <<Head(f)>>) \o DoubleQuotes(Tail(f))

\* join_append: the text of one field
FieldText(f) == IF NeedsQuote(f) THEN <<QUOTE>> \o DoubleQuotes(f) \o <<QUOTE>> ELSE f

RECURSIVE JoinFields(_)
JoinFields(row) ==
    IF row = <<>> THEN <<>>
    ELSE IF Len(row) = 1 THEN FieldText(row[1])
    ELSE FieldText(Head(row)) \o <<COMMA>> \o JoinFields(Tail(row))

\* writerow: the line written for a row; a row of one empty field is written
\* as a pair of quotes
WriteRow(row) ==
    (IF row = << <<>> >> THEN <<QUOTE, QUOTE>> ELSE JoinFields(row)) \o <<CR, LF>>

RECURSIVE WriteRows(_)
\* writerows: the lines written for a sequence of rows
WriteRows(rows) ==
    IF rows = <<>> THEN <<>> ELSE WriteRow(Head(rows)) \o WriteRows(Tail(rows))

(***************************************************************************)
(* os.path on POSIX paths: what line 27-30 derive the default output path  *)
(* with.                                                                   *)
(***************************************************************************)
\* str.rfind of a character: the last index of c in s, 0 when it does not occur
RFind(s, c) ==
    IF \E i \in 1..Len(s) : s[i] = c
    THEN CHOOSE i \in 1..Len(s) : s[i] = c /\ \A j \in (i + 1)..Len(s) : s[j] # c
    ELSE 0

RECURSIVE RStripSlash(_)
RStripSlash(s) ==
    IF s # <<>> /\ s[Len(s)] = "/" THEN RStripSlash(SubSeq(s, 1, Len(s) - 1)) ELSE s

\* os.path.dirname
dirname(p) ==
    LET head == SubSeq(p, 1, RFind(p, "/"))
    IN  IF head # <<>> /\ \E k \in 1..Len(head) : head[k] # "/"
        THEN RStripSlash(head) ELSE head

\* os.path.basename
basename(p) == SubSeq(p, RFind(p, "/") + 1, Len(p))

\* os.path.splitext: <<root, ext>>; the dots a name starts with are no extension
splitext(p) ==
    LET sep == RFind(p, "/")
        dot == RFind(p, ".")
    IN  IF dot > sep /\ \E k \in (sep + 1)..(dot - 1) : p[k] # "."
        THEN <<SubSeq(p, 1, dot - 1), SubSeq(p, dot, Len(p))>>
        ELSE <<p, <<>>>>

\* os.path.join of two components
join(a, b) ==
    IF startswith(b, <<"/">>) THEN b
    ELSE IF a = <<>> \/ a[Len(a)] = "/" THEN a \o b
    ELSE a \o <<"/">> \o b

\* lines 27-30: <dir>/<name>_sorted<ext>
DefaultOutputPath(p) ==
    LET name == splitext(basename(p))[1]
        ext  == splitext(basename(p))[2]
    IN  join(dirname(p), name \o <<"_", "s", "o", "r", "t", "e", "d">> \o ext)

(***************************************************************************)
(* The row filter (lines 43-52) and the sort (lines 55-59).  A row is a    *)
(* sequence of fields, a field a string.                                   *)
(***************************************************************************)
NPM == <<"n", "p", "m", " ">>

PAREN == <<" ", "(">>

\* line 46: row and row[0] and not row[0].startswith('npm ')
RowTest(row) == row # <<>> /\ row[1] # <<>> /\ ~startswith(row[1], NPM)

\* line 48: row[0].split(' (')[0]
DatePart(row) == SplitFirst(row[1], PAREN)

\* line 57: the sort key of a row
SortKey(row) == strptime(DatePart(row))

\* line 49: the exception the body of the try raises for a row, "" for none
RowRaises(row) ==
    IF RowTest(row) /\ strptime(DatePart(row)) = NoTime THEN "ValueError" ELSE ""

\* the classes of the exceptions a run can raise, all of them Exceptions
ExceptionClasses == {"ValueError", "StopIteration", "OSError", "SameFileError"}

\* a handler that lets every exception of a row through
RowHandlerCatchesNothing(e) == FALSE

\* line 51: except Exception
RowHandlerCatches(e) == e \in ExceptionClasses

RECURSIVE FilterLoop(_, _)
\* lines 44-52 from the rows still to visit and the rows kept so far:
\* [kept |-> sorted_rows, exc |-> the exception that left the loop, "" for none]
FilterLoop(todo, kept) ==
    IF todo = <<>> THEN [kept |-> kept, exc |-> ""]
    ELSE LET row == Head(todo)
             e   == RowRaises(row)
         IN  IF e # "" THEN
                 IF RowHandlerCatches(e) THEN FilterLoop(Tail(todo), kept)
                 ELSE [kept |-> kept, exc |-> e]
             ELSE IF RowTest(row) THEN FilterLoop(Tail(todo), Append(kept, row))
             ELSE FilterLoop(Tail(todo), kept)

RECURSIVE InsertDesc(_, _)
\* x put into a list in descending key order, behind the rows whose key is
\* not smaller than its own
InsertDesc(x, srt) ==
    IF srt = <<>> THEN <<x>>
    ELSE IF TimeLess(SortKey(Head(srt)), SortKey(x)) THEN <<x>> \o srt
    ELSE <<Head(srt)>> \o InsertDesc(x, Tail(srt))

RECURSIVE InsertAsc(_, _)
InsertAsc(x, srt) ==
    IF srt = <<>> THEN <<x>>
    ELSE IF TimeLess(SortKey(x), SortKey(Head(srt))) THEN <<x>> \o srt
    ELSE <<Head(srt)>> \o InsertAsc(x, Tail(srt))

RECURSIVE Reverse(_)
Reverse(q) == IF q = <<>> THEN <<>> ELSE Append(Reverse(Tail(q)), Head(q))

RECURSIVE SortAsc(_, _)
SortAsc(todo, srt) ==
    IF todo = <<>> THEN srt ELSE SortAsc(Tail(todo), InsertAsc(Head(todo), srt))

RECURSIVE SortDesc(_, _)
SortDesc(todo, srt) ==
    IF todo = <<>> THEN srt ELSE SortDesc(Tail(todo), InsertDesc(Head(todo), srt))

\* an ascending sort reversed: newest first, the rows of one timestamp in
\* the opposite of their input order
SortedAscThenReversed(q) == Reverse(SortAsc(q, <<>>))

RECURSIVE FirstPerKey(_, _)
\* the first row of each timestamp
FirstPerKey(todo, acc) ==
    IF todo = <<>> THEN acc
    ELSE IF \E i \in 1..Len(acc) : SortKey(acc[i]) = SortKey(Head(todo))
         THEN FirstPerKey(Tail(todo), acc)
         ELSE FirstPerKey(Tail(todo), Append(acc, Head(todo)))

\* a sort through a table keyed by timestamp: one row for each timestamp
SortedByKeyTable(q) == SortDesc(FirstPerKey(q, <<>>), <<>>)

\* lines 55-59: sorted(sorted_rows, key=..., reverse=True), a stable sort
Sorted(q) == SortDesc(q, <<>>)

(***************************************************************************)
(* The inputs: the paths, the files the run can find.                      *)
(***************************************************************************)
\* "d/s.csv", the source path
SrcPath == <<"d", "/", "s", ".", "c", "s", "v">>

\* "o.csv", a destination path a caller may pass
OutPath == <<"o", ".", "c", "s", "v">>

\* the paths of the file system
Paths == {SrcPath, OutPath, DefaultOutputPath(SrcPath)}

\* Python's None, and the result of a call that has not returned
None == <<"None">>

Pending == <<"pending">>

\* what the caller sees when an exception leaves create_sorted_copy
Raised == <<"raised">>

\* "2025/05/03 10:00:00" and "2025/05/04 09:00:00"
TS1 == <<"2", "0", "2", "5", "/", "0", "5", "/", "0", "3", " ",
         "1", "0", ":", "0", "0", ":", "0", "0">>

TS2 == <<"2", "0", "2", "5", "/", "0", "5", "/", "0", "4", " ",
         "0", "9", ":", "0", "0", ":", "0", "0">>

\* The lines a source file is made of, without their line ending: two rows of
\* one timestamp, a newer row with a quoted field, a timestamp with no " (",
\* an npm line, text that is no date, an empty CREATED field, a blank line.
RowPool ==
    { TS1 \o <<" ", "(", "S", ")", ",", "A">>,
      TS1 \o <<" ", "(", "S", ")", ",", "B">>,
      TS2 \o <<" ", "(", "U", ")", ",", "\"", "c", ",", "d", "\"">>,
      TS1 \o <<",", "E">>,
      <<"n", "p", "m", " ", "W", ",", "x">>,
      <<"n", "o", "-", "d", "a", "t", "e", ",", "x">>,
      <<",", "x">>,
      <<>> }

\* the header lines: "CREATED,V", one that starts with "npm " and has a
\* quoted column name, one whose field 0 is empty
HeaderPool ==
    { <<"C", "R", "E", "A", "T", "E", "D", ",", "V">>,
      <<"n", "p", "m", " ", "h", ",", "\"", "V", ",", "W", "\"">>,
      <<",", "V">> }

\* the line endings a file is written with
LineEndings == { <<CR, LF>>, <<LF>> }

RECURSIVE JoinLines(_, _)
\* the text of the lines, each followed by the line ending
JoinLines(lines, eol) ==
    IF lines = <<>> THEN <<>> ELSE Head(lines) \o eol \o JoinLines(Tail(lines), eol)

\* the sequences of at most n lines of the pool
Bodies(n) == UNION { [1..k -> RowPool] : k \in 0..n }

\* the contents a source file can have: nothing at all, or a header line and
\* at most MaxRows data lines
SourceTexts ==
    { <<>> } \cup
    { JoinLines(<<h>> \o b, eol) : h \in HeaderPool, b \in Bodies(MaxRows), eol \in LineEndings }

\* what a destination can hold before the run: a table of its own
OldText ==
    JoinLines(<< <<"X">>, <<"2", "0", "2", "5", "/", "0", "5", "/", "0", "5", " ",
                            "0", "1", ":", "0", "0", ":", "0", "0", " ", "(", "z", ")", ",", "Q">> >>,
              <<CR, LF>>)

NoFile == [exists |-> FALSE, data |-> <<>>]

File(text) == [exists |-> TRUE, data |-> text]

(***************************************************************************)
(* The state.                                                              *)
(***************************************************************************)
VARIABLES
    fs,           \* the file system: path -> [exists, data]
    csv_path,     \* argument csv_path
    arg_output,   \* argument output_path as the caller passed it
    output_path,  \* the local output_path (reassigned on line 30)
    pc,           \* the statement create_sorted_copy is at
    header,       \* line 38
    rows,         \* line 39
    sorted_rows,  \* lines 43-59
    exc,          \* the exception being propagated, "" for none
    result,       \* what the call gave the caller
    reported,     \* the record count printed on line 67, -1 before
    run,          \* "first" or "second": which call this is
    fs0,          \* the file system when the call started
    fs1,          \* the file system when the first call ended
    faulted,      \* the environment failed a file operation (I/O error)
    failed_at     \* the statement that raised the exception, "" for none

vars == <<fs, csv_path, arg_output, output_path, pc, header, rows, sorted_rows,
          exc, result, reported, run, fs0, fs1, faulted, failed_at>>

locals == <<header, rows, sorted_rows>>

args == <<csv_path, arg_output>>

hist == <<run, fs0, fs1>>

\* the file systems a call can start in: the source is missing or holds one
\* of the source texts; the destination is missing or holds an old table
InitialFileSystems(out) ==
    { [p \in Paths |->
         IF p = SrcPath THEN src
         ELSE IF p = out THEN old
         ELSE NoFile] :
      src \in {NoFile} \cup { File(t) : t \in SourceTexts },
      old \in {NoFile, File(OldText)} }

Init ==
    /\ csv_path = SrcPath
    /\ arg_output \in {None, OutPath, SrcPath}
    /\ output_path = arg_output
    /\ fs \in InitialFileSystems(IF arg_output = None THEN DefaultOutputPath(SrcPath)
                                 ELSE arg_output)
    /\ fs0 = fs
    /\ fs1 = fs
    /\ pc = "exists"
    /\ header = <<>>
    /\ rows = <<>>
    /\ sorted_rows = <<>>
    /\ exc = ""
    /\ result = Pending
    /\ reported = -1
    /\ run = "first"
    /\ faulted = FALSE
    /\ failed_at = ""

(***************************************************************************)
(* create_sorted_copy, statement by statement.                             *)
(***************************************************************************)
\* an exception is raised inside the outer try: control goes to line 70
Raise(e) == exc' = e /\ failed_at' = pc /\ pc' = "except"

\* the check that finds every source there
SourceExistsUnchecked == TRUE

\* line 21: os.path.exists(csv_path)
SourceExists == fs[csv_path].exists

\* lines 21-23: a missing source ends the call with None
CheckExists ==
    /\ pc = "exists"
    /\ IF SourceExists
       THEN pc' = "derive" /\ UNCHANGED result
       ELSE pc' = "done" /\ result' = None
    /\ UNCHANGED <<fs, args, output_path, locals, exc, failed_at, reported, hist, faulted>>

\* lines 26-30: the default output path
DeriveOutputPath ==
    /\ pc = "derive"
    /\ output_path' = IF output_path = None THEN DefaultOutputPath(csv_path)
                      ELSE output_path
    /\ pc' = "copy"
    /\ UNCHANGED <<fs, args, locals, exc, failed_at, result, reported, hist, faulted>>

\* the copy made from the output path to the source path
CopyArgsSwapped == <<output_path, csv_path>>

\* line 33: the arguments of shutil.copy2, <<src, dst>>
CopyArgs == <<csv_path, output_path>>

\* line 33: shutil.copy2(csv_path, output_path).  It raises SameFileError
\* when both name one file and FileNotFoundError when the source is missing,
\* before it opens the destination.
Copy ==
    /\ pc = "copy"
    /\ LET src == CopyArgs[1]
           dst == CopyArgs[2]
       IN  IF src = dst THEN Raise("SameFileError") /\ UNCHANGED fs
           ELSE IF ~fs[src].exists THEN Raise("OSError") /\ UNCHANGED fs
           ELSE /\ fs' = [fs EXCEPT ![dst] = File(fs[src].data)]
                /\ pc' = "read"
                /\ UNCHANGED <<exc, failed_at>>
    /\ UNCHANGED <<args, output_path, locals, result, reported, hist, faulted>>

\* line 33 failing with an I/O error: before the destination is opened, or
\* after it was created empty
CopyFault ==
    /\ pc = "copy"
    /\ CopyArgs[1] # CopyArgs[2]
    /\ fs[CopyArgs[1]].exists
    /\ \/ UNCHANGED fs
       \/ fs' = [fs EXCEPT ![CopyArgs[2]] = File(<<>>)]
    /\ Raise("OSError")
    /\ faulted' = TRUE
    /\ UNCHANGED <<args, output_path, locals, result, reported, hist>>

\* lines 36-39: header = next(reader) raises StopIteration when the file has
\* no row at all; rows = list(reader)
Read ==
    /\ pc = "read"
    /\ LET all == ReadRows(fs[output_path].data)
       IN  IF all = <<>>
           THEN Raise("StopIteration") /\ UNCHANGED locals
           ELSE /\ header' = Head(all)
                /\ rows' = Tail(all)
                /\ pc' = "filter"
                /\ UNCHANGED <<sorted_rows, exc, failed_at>>
    /\ UNCHANGED <<fs, args, output_path, result, reported, hist, faulted>>

\* line 36 failing with an I/O error
ReadFault ==
    /\ pc = "read"
    /\ Raise("OSError")
    /\ faulted' = TRUE
    /\ UNCHANGED <<fs, args, output_path, locals, result, reported, hist>>

\* lines 43-52: the filter loop
Filter ==
    /\ pc = "filter"
    /\ LET r == FilterLoop(rows, <<>>)
       IN  IF r.exc # ""
           THEN Raise(r.exc) /\ UNCHANGED sorted_rows
           ELSE sorted_rows' = r.kept /\ pc' = "sort" /\ UNCHANGED <<exc, failed_at>>
    /\ UNCHANGED <<fs, args, output_path, header, rows, result, reported, hist, faulted>>

\* lines 55-59: the sort; its key raises ValueError for a row strptime rejects
Sort ==
    /\ pc = "sort"
    /\ IF \E i \in 1..Len(sorted_rows) : SortKey(sorted_rows[i]) = NoTime
       THEN Raise("ValueError") /\ UNCHANGED sorted_rows
       ELSE sorted_rows' = Sorted(sorted_rows) /\ pc' = "open" /\ UNCHANGED <<exc, failed_at>>
    /\ UNCHANGED <<fs, args, output_path, header, rows, result, reported, hist, faulted>>

\* the rewrite opening the source
WritesSourcePath == csv_path

\* line 62: the path the rewrite opens
WritePath == output_path

\* line 62: open(output_path, 'w') truncates the file
OpenWrite ==
    /\ pc = "open"
    /\ fs' = [fs EXCEPT ![WritePath] = File(<<>>)]
    /\ pc' = "write"
    /\ UNCHANGED <<args, output_path, locals, exc, failed_at, result, reported, hist, faulted>>

\* line 62 failing (a read-only file, copy2 having copied the source's mode)
OpenWriteFault ==
    /\ pc = "open"
    /\ Raise("OSError")
    /\ faulted' = TRUE
    /\ UNCHANGED <<fs, args, output_path, locals, result, reported, hist>>

\* the rows written without the header
WrittenWithoutHeader == WriteRows(sorted_rows)

\* lines 63-65: what the writer writes
Written == WriteRow(header) \o WriteRows(sorted_rows)

\* lines 63-65: writerow(header), writerows(sorted_rows), and the file closed
Write ==
    /\ pc = "write"
    /\ fs' = [fs EXCEPT ![WritePath] = File(Written)]
    /\ pc' = "return"
    /\ UNCHANGED <<args, output_path, locals, exc, failed_at, result, reported, hist, faulted>>

\* lines 63-65 failing with an I/O error (a full disk) after k of the lines
\* were written
WriteFault ==
    /\ pc = "write"
    /\ \E k \in 0..Len(sorted_rows) :
          fs' = [fs EXCEPT ![WritePath] =
                    File(WriteRows(SubSeq(<<header>> \o sorted_rows, 1, k)))]
    /\ Raise("OSError")
    /\ faulted' = TRUE
    /\ UNCHANGED <<args, output_path, locals, result, reported, hist>>

\* lines 67-68: the count is printed, the output path returned
Return ==
    /\ pc = "return"
    /\ reported' = Len(sorted_rows)
    /\ result' = output_path
    /\ pc' = "done"
    /\ UNCHANGED <<fs, args, output_path, locals, exc, failed_at, hist, faulted>>

\* a handler for the errors of the operating system alone
OuterCatchesOSError(e) == e \in {"OSError", "SameFileError"}

\* line 70: except Exception
OuterCatches(e) == e \in ExceptionClasses

\* lines 70-72: the exception is printed and None returned; one the handler
\* does not catch leaves the function
Except ==
    /\ pc = "except"
    /\ result' = IF OuterCatches(exc) THEN None ELSE Raised
    /\ pc' = "done"
    /\ UNCHANGED <<fs, args, output_path, locals, exc, failed_at, reported, hist, faulted>>

\* the caller calls create_sorted_copy again with the same arguments, after
\* a first call in which no file operation failed on an I/O error
Rerun ==
    /\ pc = "done"
    /\ run = "first"
    /\ ~faulted
    /\ run' = "second"
    /\ fs1' = fs
    /\ fs0' = fs
    /\ output_path' = arg_output
    /\ pc' = "exists"
    /\ header' = <<>>
    /\ rows' = <<>>
    /\ sorted_rows' = <<>>
    /\ exc' = ""
    /\ failed_at' = ""
    /\ result' = Pending
    /\ reported' = -1
    /\ UNCHANGED <<fs, args, faulted>>

Next ==
    \/ CheckExists
    \/ DeriveOutputPath
    \/ Copy
    \/ CopyFault
    \/ Read
    \/ ReadFault
    \/ Filter
    \/ Sort
    \/ OpenWrite
    \/ OpenWriteFault
    \/ Write
    \/ WriteFault
    \/ Return
    \/ Except

\* one call
Spec == Init /\ [][Next]_vars

NextRerun == Next \/ Rerun

\* two calls in sequence
SpecRerun == Init /\ [][NextRerun]_vars

(***************************************************************************)
(* What the properties speak of.                                           *)
(***************************************************************************)
Done == pc = "done"

\* the call returned the output path
Succeeded == Done /\ result \notin {None, Raised, Pending}

\* the path the destination has for the arguments of the call
DestPath == IF arg_output = None THEN DefaultOutputPath(csv_path) ELSE arg_output

\* the source as it was when the call started: its text, its rows, its
\* header, its data rows
SrcText == fs0[csv_path].data

SrcAll == ReadRows(SrcText)

SrcHeader == Head(SrcAll)

SrcBody == Tail(SrcAll)

\* the destination as it is now
DestText == fs[DestPath].data

DestAll == ReadRows(DestText)

DestBody == Tail(DestAll)

\* the timestamp of a row, NoTime when it has none
Key(row) == IF row = <<>> THEN NoTime ELSE strptime(SplitFirst(row[1], PAREN))

\* the acceptance condition as the specification words it: field 0 is not
\* empty, does not start with "npm ", contains " (", and the text before the
\* first " (" parses as a timestamp
SpecAccepts(row) ==
    /\ row # <<>>
    /\ row[1] # <<>>
    /\ ~startswith(row[1], NPM)
    /\ Find(row[1], PAREN) # 0
    /\ strptime(SubSeq(row[1], 1, Find(row[1], PAREN) - 1)) # NoTime

\* a malformed row: an empty row, an empty field 0, an npm line, a field 0
\* whose timestamp does not parse
Malformed(row) ==
    \/ row = <<>>
    \/ row[1] = <<>>
    \/ startswith(row[1], NPM)
    \/ Key(row) = NoTime

\* how often a row occurs in a sequence of rows
Count(row, q) == Cardinality({i \in 1..Len(q) : q[i] = row})

Occurs(row, q) == \E i \in 1..Len(q) : q[i] = row

\* the rows of q whose timestamp is t, in their order in q
WithKey(q, t) == LET HasKey(row) == Key(row) = t IN SelectSeq(q, HasKey)

\* the first line of a text, its line ending included
FirstLine(text) ==
    IF text = <<>> THEN <<>>
    ELSE SubSeq(text, 1, CHOOSE i \in 1..Len(text) :
                            /\ LineEndsAt(text, i)
                            /\ \A j \in 1..(i - 1) : ~LineEndsAt(text, j))

\* s is a prefix of t and shorter than t
ProperPrefix(s, t) == Len(s) < Len(t) /\ s = SubSeq(t, 1, Len(s))

(***************************************************************************)
(* C1.  Filter correctness as claimed: after a successful run a data row   *)
(* of the source is in the destination body if and only if its field 0 is  *)
(* not empty, does not start with "npm ", contains " (" and the text       *)
(* before the first " (" parses as a timestamp.  The code keeps a row      *)
(* whose field 0 is a timestamp with no " (" in it, so this fails.         *)
(***************************************************************************)
C1_FilterIffSpecAccepts ==
    Succeeded =>
        LET src == SrcBody
            dst == DestBody
        IN  \A i \in 1..Len(src) : Occurs(src[i], dst) <=> SpecAccepts(src[i])

(***************************************************************************)
(* C2.  Ordering: after a successful run every row of the destination body *)
(* has a timestamp, no row is older than the row after it, and the rows of *)
(* one timestamp stand in the order they have in the source.               *)
(***************************************************************************)
C2_NewestFirstStable ==
    Succeeded =>
        LET src == SrcBody
            dst == DestBody
        IN  /\ \A j \in 1..Len(dst) : Key(dst[j]) # NoTime
            /\ \A j \in 1..(Len(dst) - 1) : ~TimeLess(Key(dst[j]), Key(dst[j + 1]))
            /\ \A j \in 1..Len(dst) :
                  WithKey(dst, Key(dst[j])) = WithKey(src, Key(dst[j]))

\* a successful run whose destination holds two different rows of one timestamp
C2_Witness ==
    /\ Succeeded
    /\ LET dst == DestBody
       IN  Len(dst) = 2 /\ dst[1] # dst[2] /\ Key(dst[1]) = Key(dst[2])

(***************************************************************************)
(* C3.  Missing source: when the source does not exist as the call starts, *)
(* the call goes from the existence check straight to its end, returns     *)
(* None, and no file is created or changed.                                *)
(***************************************************************************)
C3_MissingSourceSafe ==
    ~fs0[csv_path].exists =>
        /\ pc \in {"exists", "done"}
        /\ fs = fs0
        /\ Done => result = None

\* a call on a missing source has returned, an old destination still there
C3_Witness ==
    /\ Done
    /\ ~fs0[csv_path].exists
    /\ result = None
    /\ fs[DestPath] = File(OldText)

(***************************************************************************)
(* C4.  Non-destructive source: in every state of a run the source file is *)
(* what it was when the call started.                                      *)
(***************************************************************************)
C4_SourceUnchanged == fs[csv_path] = fs0[csv_path]

\* a call whose destination path is the source path has failed at the copy
C4_Witness ==
    /\ Done
    /\ arg_output = csv_path
    /\ fs0[csv_path].exists
    /\ failed_at = "copy"
    /\ result = None

(***************************************************************************)
(* C5 as claimed: after a successful run the first line of the destination *)
(* is the first line of the source, character for character.  The header   *)
(* is parsed and written again, with the writer's quoting and its \r\n     *)
(* line ending, so this fails for a source whose lines end in \n.          *)
(***************************************************************************)
C5_HeaderLineExact == Succeeded => FirstLine(DestText) = FirstLine(SrcText)

(***************************************************************************)
(* C5 as amended.  Header preservation: after a successful run the fields  *)
(* of the destination's header are the fields of the source's header,      *)
(* whatever the data rows are; the header is never filtered.               *)
(***************************************************************************)
C5_HeaderFieldsPreserved ==
    Succeeded => LET dst == DestAll IN dst # <<>> /\ Head(dst) = SrcHeader

\* a successful run on a source whose header starts with "npm " and all of
\* whose data rows were excluded
C5_Witness ==
    /\ Succeeded
    /\ LET src == SrcAll
       IN  startswith(Head(src)[1], NPM) /\ Len(src) = MaxRows + 1
    /\ DestBody = <<>>

(***************************************************************************)
(* C6.  Idempotent re-run: when create_sorted_copy is called twice with    *)
(* the same arguments and no file operation fails on an I/O error, the     *)
(* destination after the second call is what it was after the first.       *)
(***************************************************************************)
C6_Idempotent ==
    (Done /\ run = "second" /\ ~faulted) => fs[DestPath] = fs1[DestPath]

\* a second successful run has ended; the destination it found was the
\* first run's output, not the copy of the source
C6_Witness ==
    /\ Succeeded
    /\ run = "second"
    /\ ~faulted
    /\ fs0[DestPath].data # fs0[csv_path].data

(***************************************************************************)
(* C7.  No false success and no escaping fault: a call gives its caller    *)
(* nothing before it ends; it ends by returning the output path or None,   *)
(* never with an exception leaving it; a call in which an exception was    *)
(* raised returns None; and a call that returns the output path leaves the *)
(* destination holding the header and then all retained rows of the source *)
(* in sorted order.                                                        *)
(***************************************************************************)
C7_NoFalseSuccess ==
    /\ ~Done => result = Pending
    /\ Done =>
        /\ result \in {None, DestPath}
        /\ (exc # "" \/ faulted) => result = None
        /\ result # None =>
              LET src == SrcAll
              IN  fs[DestPath] = File(WriteRow(Head(src))
                                      \o WriteRows(Sorted(FilterLoop(Tail(src), <<>>).kept)))

\* a call on a source with no header line has returned None
C7_Witness ==
    /\ Done
    /\ fs0[csv_path] = File(<<>>)
    /\ exc = "StopIteration"
    /\ result = None

C9_FailureLeavesCopy ==
    (Done /\ result = None /\ failed_at \in {"read", "filter", "sort", "open", "write"}) =>
        fs[DestPath] = File(SrcText)

(***************************************************************************)
(* C9 as amended.  When a call fails after the copy and before the rewrite *)
(* has opened the destination for writing (reading it, parsing it, opening *)
(* it), the destination holds the bytes of the source; when the writer     *)
(* fails after that, the destination holds a proper prefix of the new      *)
(* content.                                                                *)
(***************************************************************************)
C9_FailureBeforeRewriteLeavesCopy ==
    (Done /\ result = None) =>
        /\ failed_at \in {"read", "filter", "sort", "open"} => fs[DestPath] = File(SrcText)
        /\ failed_at = "write" =>
              /\ fs[DestPath].exists
              /\ ProperPrefix(DestText, WriteRow(header) \o WriteRows(sorted_rows))

\* a call has failed opening the copy for writing; the copy is there
C9_Witness ==
    /\ Done
    /\ result = None
    /\ failed_at = "open"
    /\ SrcText # <<>>
    /\ fs[DestPath] = File(SrcText)

====
